---- MODULE Spec2Model ----
(***************************************************************************)
(* Leaf-segment ID allocator: the store advancer (Data.NextId), the        *)
(* per-tag allocator (BizAlloc: nextId, popNextId, fillSegments, wakeup)   *)
(* and the registry (Alloc.NextId), as a state machine.                    *)
(*                                                                         *)
(* Threads are the consumers (callers of Alloc.NextId) and the refill      *)
(* goroutines (fillSegments).  Every sync.Mutex Lock is a step of its      *)
(* own; the code between a Lock and the next Unlock (or blocking call) is  *)
(* one step.  The SQL transaction of Data.NextId is two steps, the UPDATE  *)
(* and the SELECT with the Commit; the row written by the UPDATE stays     *)
(* locked until the transaction commits or rolls back.                     *)
(***************************************************************************)
EXTENDS Integers, Sequences, FiniteSets, TLC

\* ------------------------------------------------------------- bounds
\* Processes sharing the store row, and consumer threads over all of them.
NumProcs == 2
NumConsumers == 3
\* Consumer threads of the one process of Spec, NextId calls over all of them,
\* Data.NextId calls.
NumLocalConsumers == 2
MaxCalls == 2
MaxAdvances == 5
\* The same for SpecMulti.
MaxCallsMulti == 3
MaxAdvancesMulti == 4
\* Data.NextId calls of SpecLive.
MaxAdvancesLive == 4
\* Calls of the one consumer of SpecSerial.
MaxSerialCalls == 6
\* The store row's step is 1..MaxStep.
MaxStep == 2
\* Goroutine slots per process for fillSegments.
NumWorkerSlots == 2
\* Calls of the one consumer and calls of Alloc.LeftCount in SpecRemaining.
MaxRemainingCalls == 3
MaxLeftCalls == 2

\* ---------------------------------------------------- program constants
\* fillSegments: "if failTimes > 3"
MaxFailTimes == 3

Procs == 1..NumProcs
Consumers == 1..NumConsumers
WorkerSlots == 1..NumWorkerSlots
Tag == "t"
Tags == {Tag}

LocalConsumers == 1..NumLocalConsumers

ConsumerThread(c) == <<"c", c, 0>>
WorkerThread(p, w) == <<"w", p, w>>
HealthThread == <<"h", 0, 0>>
NoThread == <<"free", 0, 0>>

VARIABLES
    procOf,        \* run: the process each consumer thread runs in (0: no such thread)
    callCap,       \* run: calls of Alloc.NextId started at most, over all consumers
    advCap,        \* run: Data.NextId calls started at most
    rowExists,     \* store: whether the segments table has a row for the tag
    max_id,        \* store: segments.max_id of the row
    step,          \* store: segments.step of the row
    rowLock,       \* store: the transaction holding the row's write lock
    nAdvances,     \* history: Data.NextId calls started
    commits,       \* history: <<proc, maxId, step>> of successful Data.NextId calls, in commit order
    bizMap,        \* Alloc.bizMap of each process: has the tag an entry
    segments,      \* BizAlloc.segments of each process
    isAllocating,  \* BizAlloc.isAllocating of each process
    waiting,       \* BizAlloc.waiting of each process: channels <<consumer, call>>
    mutex,         \* BizAlloc.mutex of each process: the thread holding it
    worker,        \* the fillSegments goroutines of each process
    popped,        \* history: raw IDs popNextId returned in each process, in mutex order
    cpc,           \* consumer: position in Alloc.NextId / BizAlloc.nextId
    calls,         \* consumer: calls of Alloc.NextId started
    signaled,      \* consumer: the channel it waits on has been closed
    waits,         \* consumer: times it has blocked in select during the current call
    ret,           \* consumer: outcome of its last finished call
    closed,        \* the closed channels that a consumer in nextId or the queue still holds
    panicked,      \* wakeup has closed a closed channel (the runtime panics)
    wokenBy,       \* consumer: the wakeup ("append", "giveup") that closed the channel of its call
    lastExit,      \* history: how the last fillSegments goroutine of each process left
    hpc,           \* health thread: position in Alloc.LeftCount
    hproc,         \* health thread: the process whose Alloc.LeftCount it calls
    left           \* health thread: the LeftCount results so far, each with the state it was read in

vars == <<procOf, callCap, advCap, rowExists, max_id, step, rowLock, nAdvances, commits, bizMap, segments,
          isAllocating, waiting, mutex, worker, popped, cpc, calls, signaled, waits, ret,
          closed, panicked, wokenBy, lastExit, hpc, hproc, left>>

runVars == <<procOf, callCap, advCap>>
storeVars == <<runVars, rowExists, max_id, step, rowLock, nAdvances, commits>>
consumerVars == <<cpc, calls, signaled, waits, ret>>
logVars == <<closed, panicked, wokenBy, lastExit>>
healthVars == <<hpc, hproc, left>>

\* ------------------------------------------------------------ helpers
Range(s) == {s[i] : i \in 1..Len(s)}

RECURSIVE SumSeq(_)
SumSeq(s) == IF s = <<>> THEN 0 ELSE Head(s) + SumSeq(Tail(s))

IdleWorker == [pc |-> "off", failTimes |-> 0, maxId |-> 0, step |-> 0]

\* ------------------------------------------------ BizAlloc, pure parts
leftCountNoOffset(segs) ==
    SumSeq([i \in 1..Len(segs) |-> segs[i].right - segs[i].left])

\* leftCount: sum of right - left - offset over the buffered segments.
leftCount(segs) ==
    SumSeq([i \in 1..Len(segs) |-> segs[i].right - segs[i].left - segs[i].offset])

\* popNextId: the ID returned.
popNextIdValue(segs) == segs[1].left + segs[1].offset

popNextIdSegsNoRetire(segs) ==
    [segs EXCEPT ![1].offset = @ + 1]

\* popNextId: the buffer afterwards (offset++, front segment dropped when used up).
popNextIdSegs(segs) ==
    LET nextId == segs[1].left + segs[1].offset
        bumped == [segs EXCEPT ![1].offset = @ + 1]
    IN  IF nextId + 1 >= bumped[1].right THEN Tail(bumped) ELSE bumped

newSegmentShifted(maxId, stp) ==
    [left |-> maxId, right |-> maxId + stp, offset |-> 0]

\* newSegment: the segment built from Data.NextId's result.
newSegment(maxId, stp) ==
    [left |-> maxId - stp, right |-> maxId, offset |-> 0]

AppendSegmentFront(segs, seg) == <<seg>> \o segs

AppendSegmentLost(segs, seg) == segs

\* fillSegments: segments = append(segments, seg).
AppendSegment(segs, seg) == Append(segs, seg)

SpawnNeededAlways(segs, allocating) == Len(segs) <= 1

SpawnNeededOnlyEmpty(segs, allocating) == Len(segs) = 0 /\ ~allocating

SpawnNeededOnlyOne(segs, allocating) == Len(segs) = 1 /\ ~allocating

\* nextId step 2: len(segments) <= 1 && !isAllocating.
SpawnNeeded(segs, allocating) == Len(segs) <= 1 /\ ~allocating

AllocatingAfterSpawnUnset(allocating, spawn) == allocating

\* nextId step 2: isAllocating = true when the goroutine is started.
AllocatingAfterSpawn(allocating, spawn) == allocating \/ spawn

\* fillSegments: len(segments) <= 1 at the loop head.
WorkerContinues(segs) == Len(segs) <= 1

WorkerFullAtOne(segs) == Len(segs) >= 1

\* fillSegments: len(segments) > 1 after the append.
WorkerFull(segs) == Len(segs) > 1

GiveUpAtThree(failTimes) == failTimes >= MaxFailTimes

\* fillSegments: failTimes > 3 after failTimes++.
GiveUp(failTimes) == failTimes > MaxFailTimes

UpdateLockNone(tx) == NoThread

\* Data.NextId: the row lock the UPDATE leaves held until commit or rollback.
UpdateLock(tx) == tx

\* The process a consumer thread runs in.
ProcOf(c) == procOf[c]

\* nextId step 3: waitChan = make(chan byte, 1), a fresh channel for every call.
waitChan(c) == <<c, calls[c]>>

WakeupQueueKept(q) == q

\* wakeup: bizAlloc.waiting = bizAlloc.waiting[:0].
WakeupQueue(q) == <<>>

\* The channels a consumer inside nextId's slow path or a queue holds; a channel
\* nothing holds any more is garbage.
Referenced(pcs, queues) ==
    {waitChan(c) : c \in {d \in Consumers : pcs[d] \in {"wait", "relock", "retry"}}}
        \cup UNION {Range(queues[p]) : p \in Procs}

\* wakeup: close(waitChan) of a closed channel, or of one channel twice, panics.
ClosesClosed(q) ==
    \/ \E ch \in Range(q) : ch \in closed
    \/ \E i, j \in 1..Len(q) : i # j /\ q[i] = q[j]

\* wakeup: the consumers in select on a queued channel are woken by this caller.
WokenBy(p, by) ==
    [c \in Consumers |->
        IF cpc[c] = "wait" /\ waitChan(c) \in Range(waiting[p]) THEN by ELSE wokenBy[c]]

UnlockBeforeFetchHeld(th) == th

\* fillSegments: bizAlloc.mutex.Unlock() before the call of newSegment.
UnlockBeforeFetch(th) == NoThread

\* wakeup: the consumers whose channel is closed (those still in select on it).
WakeupSignaledNone(p) == signaled

WakeupSignaled(p) ==
    [c \in Consumers |->
        signaled[c] \/ (cpc[c] = "wait" /\ <<c, calls[c]>> \in Range(waiting[p]))]

\* The lowest free goroutine slot of a process (0: none).
FreeSlot(p) ==
    IF \E w \in WorkerSlots : worker[p][w].pc = "off"
    THEN CHOOSE w \in WorkerSlots :
            /\ worker[p][w].pc = "off"
            /\ \A v \in WorkerSlots : worker[p][v].pc = "off" => w <= v
    ELSE 0

\* go bizAlloc.fillSegments()
Spawned(p) ==
    IF FreeSlot(p) = 0 THEN worker[p]
    ELSE [worker[p] EXCEPT ![FreeSlot(p)] = [IdleWorker EXCEPT !.pc = "start"]]

LiveWorkers(p) == {w \in WorkerSlots : worker[p][w].pc # "off"}

\* ------------------------------------------------------------- Init
InitCommon ==
    /\ max_id = 0
    /\ step \in 1..MaxStep
    /\ rowLock = NoThread
    /\ nAdvances = 0
    /\ commits = <<>>
    /\ bizMap = [p \in Procs |-> [t \in Tags |-> FALSE]]
    /\ segments = [p \in Procs |-> <<>>]
    /\ isAllocating = [p \in Procs |-> FALSE]
    /\ waiting = [p \in Procs |-> <<>>]
    /\ mutex = [p \in Procs |-> NoThread]
    /\ worker = [p \in Procs |-> [w \in WorkerSlots |-> IdleWorker]]
    /\ popped = [p \in Procs |-> <<>>]
    /\ cpc = [c \in Consumers |-> "idle"]
    /\ calls = [c \in Consumers |-> 0]
    /\ signaled = [c \in Consumers |-> FALSE]
    /\ waits = [c \in Consumers |-> 0]
    /\ ret = [c \in Consumers |-> "none"]
    /\ closed = {}
    /\ panicked = FALSE
    /\ wokenBy = [c \in Consumers |-> "none"]
    /\ lastExit = [p \in Procs |-> "none"]
    /\ hpc = "idle"
    /\ hproc = 1
    /\ left = <<>>

\* One process, NumLocalConsumers concurrent consumers, a store that may fail.
Init ==
    /\ procOf = [c \in Consumers |-> IF c \in LocalConsumers THEN 1 ELSE 0]
    /\ callCap = MaxCalls
    /\ advCap = MaxAdvances
    /\ rowExists \in BOOLEAN
    /\ InitCommon

\* NumProcs processes sharing the store row, the consumers spread over them.
InitMulti ==
    /\ procOf = [c \in Consumers |-> ((c - 1) % NumProcs) + 1]
    /\ callCap = MaxCallsMulti
    /\ advCap = MaxAdvancesMulti
    /\ rowExists \in BOOLEAN
    /\ InitCommon

\* Cold start, one process, one serial consumer, a row (max_id = 0, step = S).
InitSerial ==
    /\ procOf = [c \in Consumers |-> IF c = 1 THEN 1 ELSE 0]
    /\ callCap = MaxSerialCalls
    /\ advCap = MaxAdvances
    /\ rowExists = TRUE
    /\ InitCommon

\* ------------------------------------------------- Alloc.NextId (consumer)
\* Alloc.NextId up to the call of bizAlloc.nextId: under the registry mutex, look
\* the tag up and insert a fresh BizAlloc when it is absent.
NextId_Resolve(c) ==
    LET p == ProcOf(c) IN
    /\ cpc[c] = "idle"
    /\ procOf[c] \in Procs
    /\ SumSeq(calls) < callCap
    /\ calls' = [calls EXCEPT ![c] = @ + 1]
    /\ waits' = [waits EXCEPT ![c] = 0]
    /\ cpc' = [cpc EXCEPT ![c] = "lock"]
    /\ bizMap' = [bizMap EXCEPT ![p][Tag] = TRUE]
    /\ IF bizMap[p][Tag]
       THEN UNCHANGED <<segments, isAllocating, waiting>>
       ELSE /\ segments' = [segments EXCEPT ![p] = <<>>]
            /\ isAllocating' = [isAllocating EXCEPT ![p] = FALSE]
            /\ waiting' = [waiting EXCEPT ![p] = <<>>]
    /\ UNCHANGED <<storeVars, logVars, healthVars, mutex, worker, popped, signaled, ret>>

\* nextId: bizAlloc.mutex.Lock() at entry.
nextId_Lock(c) ==
    LET p == ProcOf(c) IN
    /\ cpc[c] = "lock"
    /\ mutex[p] = NoThread
    /\ mutex' = [mutex EXCEPT ![p] = ConsumerThread(c)]
    /\ cpc' = [cpc EXCEPT ![c] = "fast"]
    /\ UNCHANGED <<storeVars, logVars, healthVars, bizMap, segments, isAllocating, waiting, worker, popped,
                   calls, signaled, waits, ret>>

\* nextId steps 1 to 3: pop when IDs are left, start the refill goroutine when
\* needed, return the ID (deferred Unlock) or enqueue a channel and Unlock.
nextId_Fast(c) ==
    LET p == ProcOf(c)
        hasId == leftCount(segments[p]) # 0
        segs1 == IF hasId THEN popNextIdSegs(segments[p]) ELSE segments[p]
        spawn == SpawnNeeded(segs1, isAllocating[p])
    IN
    /\ cpc[c] = "fast"
    /\ mutex[p] = ConsumerThread(c)
    /\ segments' = [segments EXCEPT ![p] = segs1]
    /\ popped' = IF hasId
                 THEN [popped EXCEPT ![p] = Append(@, popNextIdValue(segments[p]))]
                 ELSE popped
    /\ isAllocating' = [isAllocating EXCEPT ![p] = AllocatingAfterSpawn(@, spawn)]
    /\ worker' = IF spawn THEN [worker EXCEPT ![p] = Spawned(p)] ELSE worker
    /\ mutex' = [mutex EXCEPT ![p] = NoThread]
    /\ IF hasId
       THEN /\ cpc' = [cpc EXCEPT ![c] = "idle"]
            /\ ret' = [ret EXCEPT ![c] = "ok"]
            /\ UNCHANGED <<waiting, signaled, waits>>
       ELSE /\ cpc' = [cpc EXCEPT ![c] = "wait"]
            /\ waiting' = [waiting EXCEPT ![p] = Append(@, waitChan(c))]
            /\ signaled' = [signaled EXCEPT ![c] = FALSE]
            /\ waits' = [waits EXCEPT ![c] = @ + 1]
            /\ UNCHANGED ret
    /\ UNCHANGED <<storeVars, logVars, healthVars, bizMap, calls>>

\* select: case <-waitChan (the channel was closed by wakeup).
Select_Woken(c) ==
    /\ cpc[c] = "wait"
    /\ signaled[c]
    /\ cpc' = [cpc EXCEPT ![c] = "relock"]
    /\ signaled' = [signaled EXCEPT ![c] = FALSE]
    /\ UNCHANGED <<storeVars, logVars, healthVars, bizMap, segments, isAllocating, waiting, mutex, worker,
                   popped, calls, waits, ret>>

\* select: case <-waitTimer.C (2 seconds passed; the channel stays queued).
Select_Timeout(c) ==
    /\ cpc[c] = "wait"
    /\ cpc' = [cpc EXCEPT ![c] = "relock"]
    /\ signaled' = [signaled EXCEPT ![c] = FALSE]
    /\ UNCHANGED <<storeVars, logVars, healthVars, bizMap, segments, isAllocating, waiting, mutex, worker,
                   popped, calls, waits, ret>>

\* nextId step 4: bizAlloc.mutex.Lock() after the select.
nextId_Relock(c) ==
    LET p == ProcOf(c) IN
    /\ cpc[c] = "relock"
    /\ mutex[p] = NoThread
    /\ mutex' = [mutex EXCEPT ![p] = ConsumerThread(c)]
    /\ cpc' = [cpc EXCEPT ![c] = "retry"]
    /\ UNCHANGED <<storeVars, logVars, healthVars, bizMap, segments, isAllocating, waiting, worker, popped,
                   calls, signaled, waits, ret>>

nextId_RetryLoop(c) ==
    LET p == ProcOf(c)
        hasId == leftCount(segments[p]) # 0
    IN
    /\ cpc[c] = "retry"
    /\ mutex[p] = ConsumerThread(c)
    /\ mutex' = [mutex EXCEPT ![p] = NoThread]
    /\ IF hasId
       THEN /\ segments' = [segments EXCEPT ![p] = popNextIdSegs(@)]
            /\ popped' = [popped EXCEPT ![p] = Append(@, popNextIdValue(segments[p]))]
            /\ ret' = [ret EXCEPT ![c] = "ok"]
            /\ cpc' = [cpc EXCEPT ![c] = "idle"]
            /\ UNCHANGED <<waiting, waits>>
       ELSE /\ waiting' = [waiting EXCEPT ![p] = Append(@, <<c, calls[c]>>)]
            /\ waits' = [waits EXCEPT ![c] = @ + 1]
            /\ cpc' = [cpc EXCEPT ![c] = "wait"]
            /\ UNCHANGED <<segments, popped, ret>>
    /\ UNCHANGED <<storeVars, logVars, healthVars, bizMap, isAllocating, worker, calls, signaled>>

\* nextId step 4: pop when IDs are left, else "no available id"; return
\* (deferred Unlock).
nextId_Retry(c) ==
    LET p == ProcOf(c)
        hasId == leftCount(segments[p]) # 0
    IN
    /\ cpc[c] = "retry"
    /\ mutex[p] = ConsumerThread(c)
    /\ mutex' = [mutex EXCEPT ![p] = NoThread]
    /\ cpc' = [cpc EXCEPT ![c] = "idle"]
    /\ IF hasId
       THEN /\ segments' = [segments EXCEPT ![p] = popNextIdSegs(@)]
            /\ popped' = [popped EXCEPT ![p] = Append(@, popNextIdValue(segments[p]))]
            /\ ret' = [ret EXCEPT ![c] = "ok"]
       ELSE /\ ret' = [ret EXCEPT ![c] = "noid"]
            /\ UNCHANGED <<segments, popped>>
    /\ closed' = closed \cap Referenced([cpc EXCEPT ![c] = "idle"], waiting)
    /\ wokenBy' = [wokenBy EXCEPT ![c] = "none"]
    /\ UNCHANGED <<storeVars, panicked, lastExit, healthVars, bizMap, isAllocating,
                   waiting, worker, calls, signaled, waits>>

\* ------------------------------------------- fillSegments (refill goroutine)
SetWorker(p, w, rec) == [worker EXCEPT ![p][w] = rec]

\* fillSegments: bizAlloc.mutex.Lock() at the loop head.
W_LockLoop(p, w) ==
    /\ worker[p][w].pc = "start"
    /\ mutex[p] = NoThread
    /\ mutex' = [mutex EXCEPT ![p] = WorkerThread(p, w)]
    /\ worker' = SetWorker(p, w, [worker[p][w] EXCEPT !.pc = "check"])
    /\ UNCHANGED <<storeVars, logVars, healthVars, bizMap, segments, isAllocating, waiting, popped, consumerVars>>

\* fillSegments loop head: with <= 1 segment Unlock and go on to newSegment;
\* else break to LEAVE (isAllocating = false, Unlock).
W_Check(p, w) ==
    /\ worker[p][w].pc = "check"
    /\ mutex[p] = WorkerThread(p, w)
    /\ IF WorkerContinues(segments[p])
       THEN /\ mutex' = [mutex EXCEPT ![p] = UnlockBeforeFetch(@)]
            /\ worker' = SetWorker(p, w, [worker[p][w] EXCEPT !.pc = "begin"])
            /\ UNCHANGED <<isAllocating, lastExit>>
       ELSE /\ mutex' = [mutex EXCEPT ![p] = NoThread]
            /\ worker' = SetWorker(p, w, IdleWorker)
            /\ isAllocating' = [isAllocating EXCEPT ![p] = FALSE]
            /\ lastExit' = [lastExit EXCEPT ![p] = "full"]
    /\ UNCHANGED <<storeVars, closed, panicked, wokenBy, healthVars, bizMap, segments, waiting,
                   popped, consumerVars>>

\* ---------------------------------------------------------- Data.NextId
\* What fillSegments does with an error of newSegment: failTimes++, then leave
\* through Lock/wakeup when failTimes > 3, else loop.
AfterFailure(rec) ==
    [pc |-> IF GiveUp(rec.failTimes + 1) THEN "lockfail" ELSE "start",
     failTimes |-> rec.failTimes + 1, maxId |-> 0, step |-> 0]

\* tx.Rollback(): the transaction's UPDATE is undone and its row lock released.
RolledBackMaxId(tx) == IF rowLock = tx THEN max_id - step ELSE max_id
Released(tx) == IF rowLock = tx THEN NoThread ELSE rowLock

\* newSegment -> Data.NextId: BeginTx, then UPDATE ... SET max_id = max_id + step
\* WHERE biz_tag = ?: waits for the row lock, writes the row and keeps it locked.
T_Update(p, w) ==
    /\ worker[p][w].pc = "begin"
    /\ nAdvances < advCap
    /\ rowExists
    /\ rowLock = NoThread
    /\ nAdvances' = nAdvances + 1
    /\ max_id' = max_id + step
    /\ rowLock' = UpdateLock(WorkerThread(p, w))
    /\ worker' = SetWorker(p, w, [worker[p][w] EXCEPT !.pc = "select"])
    /\ UNCHANGED <<runVars, logVars, healthVars, rowExists, step, commits, bizMap, segments,
                   isAllocating, waiting, mutex, popped, consumerVars>>

\* rowsAffected == 0: "biz_tag not found", rollback.
T_NotFound(p, w) ==
    /\ worker[p][w].pc = "begin"
    /\ nAdvances < advCap
    /\ ~rowExists
    /\ nAdvances' = nAdvances + 1
    /\ worker' = SetWorker(p, w, AfterFailure(worker[p][w]))
    /\ UNCHANGED <<runVars, logVars, healthVars, rowExists, max_id, step, rowLock, commits, bizMap, segments,
                   isAllocating, waiting, mutex, popped, consumerVars>>

\* BeginTx, the UPDATE or its preparation fails (store error, 2 s deadline,
\* also while waiting for the row lock): rollback, Data.NextId returns the error.
T_FailUpdate(p, w) ==
    /\ worker[p][w].pc = "begin"
    /\ nAdvances < advCap
    /\ nAdvances' = nAdvances + 1
    /\ worker' = SetWorker(p, w, AfterFailure(worker[p][w]))
    /\ UNCHANGED <<runVars, logVars, healthVars, rowExists, max_id, step, rowLock, commits, bizMap, segments,
                   isAllocating, waiting, mutex, popped, consumerVars>>

\* SELECT max_id, step ... WHERE biz_tag = ?, Scan(&maxId, &step) and
\* tx.Commit(): newSegment returns the segment, failTimes = 0.
T_SelectCommit(p, w) ==
    /\ worker[p][w].pc = "select"
    /\ rowLock' = Released(WorkerThread(p, w))
    /\ commits' = Append(commits, <<p, max_id, step>>)
    /\ worker' = SetWorker(p, w, [pc |-> "lockok", failTimes |-> 0,
                                  maxId |-> max_id, step |-> step])
    /\ UNCHANGED <<runVars, logVars, healthVars, rowExists, max_id, step, nAdvances, bizMap, segments,
                   isAllocating, waiting, mutex, popped, consumerVars>>

\* The SELECT, its preparation or the Commit fails after the UPDATE: rollback
\* (the UPDATE is undone, the row lock released), Data.NextId returns the error.
T_FailAfterUpdate(p, w) ==
    /\ worker[p][w].pc = "select"
    /\ max_id' = RolledBackMaxId(WorkerThread(p, w))
    /\ rowLock' = Released(WorkerThread(p, w))
    /\ worker' = SetWorker(p, w, AfterFailure(worker[p][w]))
    /\ UNCHANGED <<runVars, logVars, healthVars, rowExists, step, nAdvances, commits, bizMap, segments,
                   isAllocating, waiting, mutex, popped, consumerVars>>

\* ------------------------------------- fillSegments after newSegment returned
\* fillSegments: bizAlloc.mutex.Lock() after a successful newSegment.
W_LockAppend(p, w) ==
    /\ worker[p][w].pc = "lockok"
    /\ mutex[p] = NoThread
    /\ mutex' = [mutex EXCEPT ![p] = WorkerThread(p, w)]
    /\ worker' = SetWorker(p, w, [worker[p][w] EXCEPT !.pc = "append"])
    /\ UNCHANGED <<storeVars, logVars, healthVars, bizMap, segments, isAllocating, waiting, popped, consumerVars>>

\* fillSegments: append the segment, wakeup(), then LEAVE with 2 segments
\* (isAllocating = false, Unlock) or Unlock and loop.
W_Append(p, w) ==
    LET segs1 == AppendSegment(segments[p],
                               newSegment(worker[p][w].maxId, worker[p][w].step))
    IN
    /\ worker[p][w].pc = "append"
    /\ mutex[p] = WorkerThread(p, w)
    /\ segments' = [segments EXCEPT ![p] = segs1]
    /\ signaled' = WakeupSignaled(p)
    /\ wokenBy' = WokenBy(p, "append")
    /\ panicked' = (panicked \/ ClosesClosed(waiting[p]))
    /\ waiting' = [waiting EXCEPT ![p] = WakeupQueue(@)]
    /\ closed' = (closed \cup Range(waiting[p])) \cap Referenced(cpc, waiting')
    /\ mutex' = [mutex EXCEPT ![p] = NoThread]
    /\ IF WorkerFull(segs1)
       THEN /\ worker' = SetWorker(p, w, IdleWorker)
            /\ isAllocating' = [isAllocating EXCEPT ![p] = FALSE]
            /\ lastExit' = [lastExit EXCEPT ![p] = "full"]
       ELSE /\ worker' = SetWorker(p, w, [IdleWorker EXCEPT !.pc = "start"])
            /\ UNCHANGED <<isAllocating, lastExit>>
    /\ UNCHANGED <<storeVars, healthVars, bizMap, popped, cpc, calls, waits, ret>>

\* fillSegments: bizAlloc.mutex.Lock() after the 4th consecutive failure.
W_LockGiveUp(p, w) ==
    /\ worker[p][w].pc = "lockfail"
    /\ mutex[p] = NoThread
    /\ mutex' = [mutex EXCEPT ![p] = WorkerThread(p, w)]
    /\ worker' = SetWorker(p, w, [worker[p][w] EXCEPT !.pc = "giveup"])
    /\ UNCHANGED <<storeVars, logVars, healthVars, bizMap, segments, isAllocating, waiting, popped, consumerVars>>

\* fillSegments: wakeup(), LEAVE (isAllocating = false, Unlock).
W_GiveUp(p, w) ==
    /\ worker[p][w].pc = "giveup"
    /\ mutex[p] = WorkerThread(p, w)
    /\ signaled' = WakeupSignaled(p)
    /\ wokenBy' = WokenBy(p, "giveup")
    /\ panicked' = (panicked \/ ClosesClosed(waiting[p]))
    /\ waiting' = [waiting EXCEPT ![p] = WakeupQueue(@)]
    /\ closed' = (closed \cup Range(waiting[p])) \cap Referenced(cpc, waiting')
    /\ isAllocating' = [isAllocating EXCEPT ![p] = FALSE]
    /\ lastExit' = [lastExit EXCEPT ![p] = "giveup"]
    /\ mutex' = [mutex EXCEPT ![p] = NoThread]
    /\ worker' = SetWorker(p, w, IdleWorker)
    /\ UNCHANGED <<storeVars, healthVars, bizMap, segments, popped, cpc, calls, waits, ret>>

\* ------------------------------------------------- Alloc.LeftCount (health)
\* handleHealth: resp.Left == 0 is answered with the error "no available id".
handleHealthError(l) == l = 0

\* The allocator is warm: 2 segments buffered, no refill goroutine, no waiters.
Warm(p) ==
    /\ Len(segments[p]) = 2
    /\ ~isAllocating[p]
    /\ LiveWorkers(p) = {}
    /\ waiting[p] = <<>>

\* A LeftCount result together with the state of the allocator it was read in:
\* the IDs popped so far, whether the allocator was warm, the IDs left in the
\* front segment, whether a refill goroutine was live.
ReadRecord(p, l) ==
    [proc |-> p, value |-> l, served |-> Len(popped[p]), warm |-> Warm(p),
     front |-> IF segments[p] = <<>> THEN 0
               ELSE segments[p][1].right - segments[p][1].left - segments[p][1].offset,
     quiet |-> LiveWorkers(p) = {}, exists |-> bizMap[p][Tag]]

LeftCount_ResolveCreates(p) ==
    /\ hpc = "idle"
    /\ Len(left) < MaxLeftCalls
    /\ hproc' = p
    /\ hpc' = "lock"
    /\ bizMap' = [bizMap EXCEPT ![p][Tag] = TRUE]
    /\ UNCHANGED <<storeVars, logVars, left, segments, isAllocating, waiting, mutex, worker,
                   popped, consumerVars>>

\* Alloc.LeftCount: look the tag up under the registry mutex; without an entry
\* return 0, else go on to leftCountWithMutex.
LeftCount_Resolve(p) ==
    /\ hpc = "idle"
    /\ Len(left) < MaxLeftCalls
    /\ hproc' = p
    /\ IF bizMap[p][Tag]
       THEN /\ hpc' = "lock"
            /\ UNCHANGED left
       ELSE /\ hpc' = "idle"
            /\ left' = Append(left, ReadRecord(p, 0))
    /\ UNCHANGED <<storeVars, logVars, bizMap, segments, isAllocating, waiting, mutex, worker,
                   popped, consumerVars>>

\* leftCountWithMutex: bizAlloc.mutex.Lock().
leftCountWithMutex_Lock ==
    /\ hpc = "lock"
    /\ mutex[hproc] = NoThread
    /\ mutex' = [mutex EXCEPT ![hproc] = HealthThread]
    /\ hpc' = "read"
    /\ UNCHANGED <<storeVars, logVars, hproc, left, bizMap, segments, isAllocating, waiting,
                   worker, popped, consumerVars>>

\* leftCountWithMutex: return bizAlloc.leftCount() (deferred Unlock).
leftCountWithMutex_Read ==
    /\ hpc = "read"
    /\ mutex[hproc] = HealthThread
    /\ left' = Append(left, ReadRecord(hproc, leftCount(segments[hproc])))
    /\ mutex' = [mutex EXCEPT ![hproc] = NoThread]
    /\ hpc' = "idle"
    /\ UNCHANGED <<storeVars, logVars, hproc, bizMap, segments, isAllocating, waiting,
                   worker, popped, consumerVars>>

\* ------------------------------------------------------- specifications
\* Every step of every thread; the store may fail or stay silent at any statement.
Next ==
    \/ \E c \in Consumers : NextId_Resolve(c)
    \/ \E c \in Consumers : nextId_Lock(c)
    \/ \E c \in Consumers : nextId_Fast(c)
    \/ \E c \in Consumers : Select_Woken(c)
    \/ \E c \in Consumers : Select_Timeout(c)
    \/ \E c \in Consumers : nextId_Relock(c)
    \/ \E c \in Consumers : nextId_Retry(c)
    \/ \E p \in Procs, w \in WorkerSlots : W_LockLoop(p, w)
    \/ \E p \in Procs, w \in WorkerSlots : W_Check(p, w)
    \/ \E p \in Procs, w \in WorkerSlots : T_Update(p, w)
    \/ \E p \in Procs, w \in WorkerSlots : T_NotFound(p, w)
    \/ \E p \in Procs, w \in WorkerSlots : T_FailUpdate(p, w)
    \/ \E p \in Procs, w \in WorkerSlots : T_SelectCommit(p, w)
    \/ \E p \in Procs, w \in WorkerSlots : T_FailAfterUpdate(p, w)
    \/ \E p \in Procs, w \in WorkerSlots : W_LockAppend(p, w)
    \/ \E p \in Procs, w \in WorkerSlots : W_Append(p, w)
    \/ \E p \in Procs, w \in WorkerSlots : W_LockGiveUp(p, w)
    \/ \E p \in Procs, w \in WorkerSlots : W_GiveUp(p, w)

Spec == Init /\ [][Next]_vars

SpecMulti == InitMulti /\ [][Next]_vars

\* A reliable store: every Data.NextId call succeeds (after any delay).
NextSerial ==
    \/ \E c \in Consumers : NextId_Resolve(c)
    \/ \E c \in Consumers : nextId_Lock(c)
    \/ \E c \in Consumers : nextId_Fast(c)
    \/ \E c \in Consumers : Select_Woken(c)
    \/ \E c \in Consumers : Select_Timeout(c)
    \/ \E c \in Consumers : nextId_Relock(c)
    \/ \E c \in Consumers : nextId_Retry(c)
    \/ \E p \in Procs, w \in WorkerSlots : W_LockLoop(p, w)
    \/ \E p \in Procs, w \in WorkerSlots : W_Check(p, w)
    \/ \E p \in Procs, w \in WorkerSlots : T_Update(p, w)
    \/ \E p \in Procs, w \in WorkerSlots : T_SelectCommit(p, w)
    \/ \E p \in Procs, w \in WorkerSlots : W_LockAppend(p, w)
    \/ \E p \in Procs, w \in WorkerSlots : W_Append(p, w)

SpecSerial == InitSerial /\ [][NextSerial]_vars

\* The serial consumer and the reliable store of SpecSerial, with a health
\* thread calling Alloc.LeftCount at any moment.
NextRemaining ==
    \/ \E c \in Consumers : NextId_Resolve(c)
    \/ \E c \in Consumers : nextId_Lock(c)
    \/ \E c \in Consumers : nextId_Fast(c)
    \/ \E c \in Consumers : Select_Woken(c)
    \/ \E c \in Consumers : Select_Timeout(c)
    \/ \E c \in Consumers : nextId_Relock(c)
    \/ \E c \in Consumers : nextId_Retry(c)
    \/ \E p \in Procs, w \in WorkerSlots : W_LockLoop(p, w)
    \/ \E p \in Procs, w \in WorkerSlots : W_Check(p, w)
    \/ \E p \in Procs, w \in WorkerSlots : T_Update(p, w)
    \/ \E p \in Procs, w \in WorkerSlots : T_SelectCommit(p, w)
    \/ \E p \in Procs, w \in WorkerSlots : W_LockAppend(p, w)
    \/ \E p \in Procs, w \in WorkerSlots : W_Append(p, w)
    \/ \E p \in Procs : LeftCount_Resolve(p)
    \/ leftCountWithMutex_Lock
    \/ leftCountWithMutex_Read

\* As InitSerial, with fewer NextId calls.
InitRemaining ==
    /\ procOf = [c \in Consumers |-> IF c = 1 THEN 1 ELSE 0]
    /\ callCap = MaxRemainingCalls
    /\ advCap = MaxAdvances
    /\ rowExists = TRUE
    /\ InitCommon

SpecRemaining == InitRemaining /\ [][NextRemaining]_vars

\* The scheduling the liveness claims rest on: a consumer's 2 s timer fires,
\* sync.Mutex grants a waiting Lock (starvation mode), and a thread inside a
\* critical section runs to its Unlock.  Nothing is assumed of the store.
Fairness ==
    /\ \A c \in LocalConsumers :
        /\ WF_vars(Select_Timeout(c))
        /\ SF_vars(nextId_Lock(c))
        /\ SF_vars(nextId_Relock(c))
        /\ WF_vars(nextId_Fast(c))
        /\ WF_vars(nextId_Retry(c))
    /\ \A w \in WorkerSlots :
        /\ WF_vars(W_Check(1, w))
        /\ WF_vars(W_Append(1, w))
        /\ WF_vars(W_GiveUp(1, w))

\* As Init, with fewer Data.NextId calls.
InitLive ==
    /\ procOf = [c \in Consumers |-> IF c \in LocalConsumers THEN 1 ELSE 0]
    /\ callCap = MaxCalls
    /\ advCap = MaxAdvancesLive
    /\ rowExists \in BOOLEAN
    /\ InitCommon

SpecLive == InitLive /\ [][Next]_vars /\ Fairness

\* ================================================================ claims
Windows(p) == {<<cm[2] - cm[3], cm[2]>> : cm \in {x \in Range(commits) : x[1] = p}}
GrantedIds(p) == UNION {win[1]..(win[2] - 1) : win \in Windows(p)}

\* C1: every raw ID a successful call returned lies in a window a successful
\* Data.NextId call granted to the same process, and no raw ID was returned
\* twice, neither within a process nor by two processes.
C1_IdsUniqueAndGranted ==
    /\ \A p \in Procs : Range(popped[p]) \subseteq GrantedIds(p)
    /\ \A p \in Procs : \A i, j \in 1..Len(popped[p]) :
            i # j => popped[p][i] # popped[p][j]
    /\ \A p, q \in Procs : p # q => Range(popped[p]) \cap Range(popped[q]) = {}

\* Two consumers of process 1 raced for IDs and process 2 handed one out too.
C1_Witness ==
    /\ Len(popped[1]) >= 2
    /\ Len(popped[2]) >= 1
    /\ \E c \in Consumers : ProcOf(c) = 1 /\ waits[c] = 0 /\ ret[c] = "ok"

\* C2: taken in commit order, the windows [m - s, m) of successful Data.NextId
\* calls are pairwise disjoint and m1 <= m2 - s2.
C2_DisjointWindows ==
    \A i, j \in 1..Len(commits) :
        i < j =>
            /\ commits[i][2] <= commits[j][2] - commits[j][3]
            /\ (commits[i][2] - commits[i][3])..(commits[i][2] - 1)
                 \cap (commits[j][2] - commits[j][3])..(commits[j][2] - 1) = {}

\* Two processes have committed, and one transaction holds the row while another
\* process's transaction is waiting to UPDATE it.
C2_Witness ==
    /\ \E i, j \in 1..Len(commits) : commits[i][1] # commits[j][1]
    /\ \E p, q \in Procs, w, v \in WorkerSlots :
        /\ p # q
        /\ worker[p][w].pc = "select"
        /\ worker[q][v].pc = "begin"

\* C3: within one process raw IDs are popped in strictly increasing order.
C3_Monotone ==
    \A p \in Procs : \A i, j \in 1..Len(popped[p]) :
        i < j => popped[p][i] < popped[p][j]

\* Process 1 popped from two segments with a window of process 2 in between.
C3_Witness ==
    /\ Len(popped[1]) >= 2
    /\ popped[1][2] > popped[1][1] + 1
    /\ \E i \in 1..Len(commits) :
        /\ commits[i][1] = 2
        /\ popped[1][1] < commits[i][2]
        /\ commits[i][2] <= popped[1][2]

\* C4: at most one fillSegments goroutine per allocator is live, and one is live
\* exactly while isAllocating is set.
C4_SingleFlight ==
    \A p \in Procs :
        /\ Cardinality(LiveWorkers(p)) <= 1
        /\ isAllocating[p] <=> LiveWorkers(p) # {}

\* Two first calls raced through the registry, both wait, one goroutine is live.
C4_Witness ==
    /\ \A c \in LocalConsumers : calls[c] = 1 /\ cpc[c] = "wait"
    /\ Cardinality(LiveWorkers(1)) = 1

\* C5: the buffer of every allocator holds at most 2 segments.
C5_BoundedBuffer ==
    \A p \in Procs : Len(segments[p]) \in {0, 1, 2}

\* The buffer is full again after the first segment was used up and retired.
C5_Witness ==
    /\ Len(segments[1]) = 2
    /\ Len(popped[1]) >= 1
    /\ segments[1][1].left > 0

\* C6: every call of NextId returns, with an ID or "no available id", whatever
\* the store does, and blocks in select at most once.
C6_BoundedWait ==
    /\ \A c \in LocalConsumers :
        (cpc[c] # "idle") ~> (cpc[c] = "idle" /\ ret[c] \in {"ok", "noid"})
    /\ [](\A c \in Consumers : waits[c] <= 1)

\* A call returned "no available id" on its timer while the store never answered
\* the refill goroutine's first Data.NextId call.
C6_Witness ==
    \E c \in LocalConsumers :
        /\ cpc[c] = "idle"
        /\ ret[c] = "noid"
        /\ nAdvances <= 1
        /\ commits = <<>>
        /\ worker[1][1].pc \in {"begin", "select"}
        /\ worker[1][1].failTimes = 0

TotalCalls == SumSeq(calls)
AllIdle == \A c \in Consumers : cpc[c] = "idle"

\* The goroutine's failure counter: it sits at its give-up exactly with 4
\* consecutive failures; and the scenario of a store that fails every call: one
\* NextId call makes at most 4 Data.NextId attempts, returns "no available id",
\* and when the goroutine has left, exactly 4 attempts were made, isAllocating
\* is false and the buffer and the queue are empty.
C7_State ==
    /\ \A p \in Procs, w \in WorkerSlots :
        /\ worker[p][w].failTimes <= MaxFailTimes + 1
        /\ worker[p][w].pc \in {"lockfail", "giveup"}
             <=> worker[p][w].failTimes = MaxFailTimes + 1
    /\ (TotalCalls = 1 /\ commits = <<>>) =>
        /\ nAdvances <= MaxFailTimes + 1
        /\ \A c \in Consumers :
            /\ (calls[c] = 1 /\ cpc[c] = "idle") => ret[c] = "noid"
            /\ (calls[c] = 1 /\ cpc[c] \notin {"lock", "fast"} /\ LiveWorkers(1) = {}) =>
                /\ nAdvances = MaxFailTimes + 1
                /\ ~isAllocating[1]
                /\ segments[1] = <<>>
                /\ waiting[1] = <<>>

\* Failures 1 to 3 wake nobody, change neither buffer nor flag and keep the
\* goroutine looping; the 4th sends it to its give-up, which closes every queued
\* channel, empties the queue, clears isAllocating and leaves the buffer alone;
\* a success resets the counter.
C7_Step ==
    \A p \in Procs, w \in WorkerSlots :
        /\ worker'[p][w].failTimes = worker[p][w].failTimes + 1 =>
            /\ waiting' = waiting
            /\ signaled' = signaled
            /\ segments' = segments
            /\ isAllocating' = isAllocating
            /\ worker'[p][w].pc =
                 IF worker'[p][w].failTimes <= MaxFailTimes THEN "start" ELSE "lockfail"
        /\ (worker[p][w].pc = "giveup" /\ worker'[p][w].pc = "off") =>
            /\ waiting'[p] = <<>>
            /\ ~isAllocating'[p]
            /\ segments' = segments
            /\ \A c \in Consumers :
                 cpc[c] = "wait" /\ <<c, calls[c]>> \in Range(waiting[p]) => signaled'[c]
        /\ (worker[p][w].pc = "select" /\ worker'[p][w].pc = "lockok") =>
            worker'[p][w].failTimes = 0

C8_RefillRetriggered ==
    [][\A c \in Consumers :
          (cpc[c] = "fast" /\ cpc'[c] = "wait") =>
              /\ isAllocating'[ProcOf(c)]
              /\ \E w \in WorkerSlots : worker'[ProcOf(c)][w].pc # "off"]_vars

\* After a give-up and a "no available id", a later call found the buffer empty,
\* started a new goroutine and waits.
C8_Witness ==
    \E c, d \in LocalConsumers :
        /\ cpc[c] = "wait"
        /\ ret[d] = "noid"
        /\ nAdvances = 4
        /\ commits = <<>>
        /\ isAllocating[1]
        /\ worker[1][1] = [IdleWorker EXCEPT !.pc = "start"]

\* C9: cold start, one serial consumer, reliable store: the k-th successful call
\* returns raw ID k - 1.
C9_Sequential ==
    \A k \in 1..Len(popped[1]) : popped[1][k] = k - 1

\* The consumer has crossed a segment boundary, after a call that timed out.
C9_Witness ==
    /\ Len(popped[1]) > step
    /\ calls[1] > Len(popped[1])

Quiescent == cpc[1] = "idle" /\ LiveWorkers(1) = {}

\* C10 as stated: after exactly S successful calls the store has been advanced
\* twice, max_id = 2 * S.
C10_Original ==
    (Len(popped[1]) = step /\ Quiescent) => max_id = 2 * step

\* C10 as amended: for S >= 2 the S-th successful call takes the fast path,
\* retires the first segment and starts a further refill, so after exactly S
\* successful calls the store is advanced at most three times and, once the
\* goroutine has left, exactly three times (max_id = 3 * S); for S = 1 it is two
\* or three times (a call served after its wait starts no refill); after 1 to
\* S - 1 successful calls it is exactly twice.
C10_ThreeAdvances ==
    /\ Len(popped[1]) = step =>
        /\ max_id <= 3 * step
        /\ (Quiescent /\ step >= 2) =>
            max_id = 3 * step /\ nAdvances = 3 /\ Len(commits) = 3
        /\ (Quiescent /\ step = 1) => max_id \in {2, 3} /\ nAdvances = max_id
    /\ (Len(popped[1]) \in 1..(step - 1) /\ Quiescent) =>
        max_id = 2 * step /\ nAdvances = 2

\* After exactly S successful calls everything is at rest with max_id = 3 * S.
C10_Witness ==
    /\ Len(popped[1]) = step
    /\ step >= 2
    /\ Quiescent
    /\ max_id = 3 * step

\* IDs popped between two LeftCount reads.
ServedBetween(i, j) == left[j].served - left[i].served

\* C11 as stated: a LeftCount read R of a warm allocator and a later read after
\* N <= R further IDs were handed out differ by exactly N.
C11_Original ==
    \A i, j \in 1..Len(left) :
        (i < j /\ left[i].warm /\ left[j].proc = left[i].proc
               /\ ServedBetween(i, j) <= left[i].value) =>
            left[j].value = left[i].value - ServedBetween(i, j)

\* C11 as amended: the later read is R - N as long as N is less than the IDs
\* left in the front segment at the first read (no segment is retired, so no
\* refill starts); for any N <= R it is R - N plus the 0, 1 or 2 segments of
\* size S the refill goroutine has appended in between.
C11_RoundTrip ==
    \A i, j \in 1..Len(left) :
        (i < j /\ left[i].warm /\ left[j].proc = left[i].proc
               /\ ServedBetween(i, j) <= left[i].value) =>
            /\ ServedBetween(i, j) < left[i].front =>
                left[j].value = left[i].value - ServedBetween(i, j)
            /\ left[j].value - (left[i].value - ServedBetween(i, j)) \in {0, step, 2 * step}

\* A warm allocator was read, an ID was handed out from its front segment
\* without using it up, and the next read is one less.
C11_Witness ==
    \E i, j \in 1..Len(left) :
        /\ i < j
        /\ left[i].warm
        /\ ServedBetween(i, j) >= 1
        /\ ServedBetween(i, j) < left[i].front
        /\ left[j].value = left[i].value - ServedBetween(i, j)

\* C12: cold start, one serial consumer, reliable store of step S: while N IDs
\* with 1 <= N < S have been handed out, LeftCount is between S - N and
\* 2 * S - N, and it is 2 * S - N when no refill goroutine is live.
C12_Prefetch ==
    /\ \A i \in 1..Len(left) :
        (left[i].proc = 1 /\ left[i].served \in 1..(step - 1)) =>
            /\ left[i].value >= step - left[i].served
            /\ left[i].value <= 2 * step - left[i].served
            /\ left[i].quiet => left[i].value = 2 * step - left[i].served
    /\ Len(popped[1]) \in 1..(step - 1) =>
            /\ leftCount(segments[1]) >= step - Len(popped[1])
            /\ leftCount(segments[1]) <= 2 * step - Len(popped[1])
            /\ LiveWorkers(1) = {} => leftCount(segments[1]) = 2 * step - Len(popped[1])

\* LeftCount was read with N < S IDs handed out, once while the prefetch was
\* still under way (S - N) and once after the goroutine had left (2 * S - N).
C12_Witness ==
    \E i, j \in 1..Len(left) :
        /\ i < j
        /\ left[i].served \in 1..(step - 1)
        /\ left[j].served = left[i].served
        /\ ~left[i].quiet /\ left[i].value = step - left[i].served
        /\ left[j].quiet /\ left[j].value = 2 * step - left[j].served

\* A step of the health thread.
HealthStep == hpc' # hpc \/ hproc' # hproc \/ left' # left

\* LeftCount on a registry without an entry for the tag returns 0, which
\* handleHealth answers with an error, however often it is called.
C20_State ==
    \A i \in 1..Len(left) :
        (~left[i].exists \/ ~bizMap[left[i].proc][Tag]) =>
            /\ left[i].value = 0
            /\ handleHealthError(left[i].value)

\* A step of LeftCount leaves the registry, the buffer, the flag, the queue, the
\* goroutines, the IDs handed out, the store and every consumer as they are.
C20_Step ==
    HealthStep =>
        UNCHANGED <<bizMap, segments, isAllocating, waiting, worker, popped, storeVars,
                    logVars, consumerVars>>

\* C20: LeftCount is read-only: it creates no registry entry, starts no refill
\* goroutine, changes no buffer, flag or queue and consumes no ID; for a tag
\* NextId was never called on it returns 0, an error of the health endpoint.
C20_ReadOnly == []C20_State /\ [][C20_Step]_vars

\* LeftCount was called twice in a process whose registry has no entry,
\* while the allocator of process 1 has segments buffered.
C20_Witness ==
    /\ Len(left) >= 2
    /\ \E i, j \in 1..Len(left) :
        /\ i < j
        /\ left[i].proc = left[j].proc
        /\ ~bizMap[left[i].proc][Tag]
        /\ left[i].value = 0 /\ left[j].value = 0
    /\ Len(segments[1]) >= 1

\* The consumers of a process that have called NextId.
Callers(p) == {d \in Consumers : ProcOf(d) = p /\ calls[d] >= 1}

\* The consumers in select on a channel of the queue.
Blocked(p) == {c \in Consumers : cpc[c] = "wait" /\ waitChan(c) \in Range(waiting[p])}

\* Every call so far is a first call that found the buffer empty and blocked,
\* and a segment holds an ID for each of these k callers.
OnlyBlockedCallers(p) ==
    /\ \A d \in Callers(p) : calls[d] = 1 /\ waits[d] = 1
    /\ step >= Cardinality(Callers(p))

\* C13: the append of a segment closes the channel of every blocked consumer
\* and empties the queue; when the only callers are k consumers that blocked on
\* the empty allocator and the segment holds at least k IDs, every call woken
\* by the append returns an ID nobody else got, never "no available id".
C13_WakeOnRefill ==
    [][/\ \A p \in Procs, w \in WorkerSlots :
            (worker[p][w].pc = "append" /\ worker'[p][w].pc # "append") =>
                /\ waiting'[p] = <<>>
                /\ \A c \in Blocked(p) : signaled'[c] /\ wokenBy'[c] = "append"
       /\ \A c \in Consumers :
            (cpc[c] = "retry" /\ cpc'[c] = "idle" /\ wokenBy[c] = "append"
                /\ OnlyBlockedCallers(ProcOf(c))) =>
                /\ ret'[c] = "ok"
                /\ Len(popped'[ProcOf(c)]) = Len(popped[ProcOf(c)]) + 1
                /\ popped'[ProcOf(c)][Len(popped'[ProcOf(c)])] \notin Range(popped[ProcOf(c)])
      ]_vars

\* Two consumers blocked while the store failed; the append after the store came
\* back woke both, one has returned its ID and the other is about to.
C13_Witness ==
    \E c, d \in LocalConsumers :
        /\ c # d
        /\ OnlyBlockedCallers(1)
        /\ Callers(1) = {c, d}
        /\ cpc[c] = "retry" /\ wokenBy[c] = "append"
        /\ cpc[d] = "idle" /\ ret[d] = "ok"
        /\ nAdvances > Len(commits)
        /\ Len(popped[1]) = 1

\* No call of NextId is in progress in a process.
NoCallInProgress(p) == \A c \in Consumers : ProcOf(c) = p => cpc[c] = "idle"

\* C14 as stated: with no NextId call in progress and isAllocating false, the
\* buffer holds 2 segments or the last refill goroutine gave up after 4
\* consecutive failures.
C14_Original ==
    \A p \in Procs :
        (bizMap[p][Tag] /\ NoCallInProgress(p) /\ ~isAllocating[p]) =>
            (Len(segments[p]) = 2 \/ lastExit[p] = "giveup")

\* The last goroutine left with 2 segments, the calls served after their wait
\* used up a segment, and the allocator rests with fewer than 2 segments.
C14_Witness ==
    /\ bizMap[1][Tag]
    /\ NoCallInProgress(1)
    /\ ~isAllocating[1]
    /\ LiveWorkers(1) = {}
    /\ lastExit[1] = "full"
    /\ Len(segments[1]) < 2
    /\ \A c \in LocalConsumers : ret[c] = "ok" /\ waits[c] = 1

\* C15 as stated: every channel of the queue belongs to a consumer that is in
\* select on it.
C15_Original ==
    \A p \in Procs : \A i \in 1..Len(waiting[p]) :
        /\ cpc[waiting[p][i][1]] = "wait"
        /\ calls[waiting[p][i][1]] = waiting[p][i][2]

\* A call has timed out and returned "no available id"; its channel is still
\* queued while the goroutine waits for the store.
C15_Witness ==
    \E c \in LocalConsumers :
        /\ cpc[c] = "idle"
        /\ ret[c] = "noid"
        /\ waitChan(c) \in Range(waiting[1])
        /\ isAllocating[1]

\* C16: the goroutine clears isAllocating only in a critical section in which
\* wakeup has closed every queued channel and emptied the queue; so with
\* isAllocating false and the mutex free the queue is empty.
C16_ExitWakesAll ==
    /\ [](\A p \in Procs :
            (~isAllocating[p] /\ mutex[p] = NoThread) => waiting[p] = <<>>)
    /\ [][\A p \in Procs :
            (isAllocating[p] /\ ~isAllocating'[p]) =>
                /\ \E w \in WorkerSlots : mutex[p] = WorkerThread(p, w)
                /\ waiting'[p] = <<>>
                /\ \A c \in Blocked(p) : signaled'[c]
         ]_vars

\* The goroutine gave up with a consumer blocked: the flag is clear, the queue
\* empty and the consumer's channel closed.
C16_Witness ==
    \E c \in LocalConsumers :
        /\ cpc[c] = "wait"
        /\ signaled[c]
        /\ wokenBy[c] = "giveup"
        /\ ~isAllocating[1]
        /\ mutex[1] = NoThread
        /\ waiting[1] = <<>>

\* A step in which a goroutine runs wakeup.
WakeupStep(p) ==
    \E w \in WorkerSlots :
        /\ worker[p][w].pc \in {"append", "giveup"}
        /\ worker'[p][w].pc # worker[p][w].pc

\* C17: wakeup never closes a closed channel: no queued channel is closed or
\* queued twice; and a wakeup changes nothing for a consumer that has left its
\* select (its timer fired first).
C17_SingleRelease ==
    /\ [](/\ ~panicked
          /\ \A p \in Procs :
                /\ Range(waiting[p]) \cap closed = {}
                /\ \A i, j \in 1..Len(waiting[p]) : i # j => waiting[p][i] # waiting[p][j])
    /\ [][\A p \in Procs :
            WakeupStep(p) =>
                /\ ~ClosesClosed(waiting[p])
                /\ \A c \in Consumers :
                     cpc[c] # "wait" =>
                        /\ cpc'[c] = cpc[c]
                        /\ ret'[c] = ret[c]
                        /\ signaled'[c] = signaled[c]
                        /\ wokenBy'[c] = wokenBy[c]
         ]_vars

\* A consumer's timer fired, and wakeup closed its queued channel before the
\* consumer got the mutex back.
C17_Witness ==
    \E c \in LocalConsumers :
        /\ cpc[c] = "relock"
        /\ waitChan(c) \in closed
        /\ wokenBy[c] = "none"
        /\ ~signaled[c]
        /\ waiting[1] = <<>>

\* A Data.NextId call of a goroutine of the process is in flight.
InFlight(p) == \E w \in WorkerSlots : worker[p][w].pc \in {"begin", "select"}

\* C18: a goroutine inside Data.NextId does not hold the allocator mutex; a
\* consumer's Lock is granted when the mutex is free, and a call that finds IDs
\* under the mutex returns one without waiting, also during a store call.
C18_NoMutexAcrossStore ==
    /\ [](\A p \in Procs :
            /\ \A w \in WorkerSlots :
                 worker[p][w].pc \in {"begin", "select"} => mutex[p] # WorkerThread(p, w)
            /\ \A c \in Consumers :
                 (InFlight(p) /\ ProcOf(c) = p /\ cpc[c] = "lock" /\ mutex[p] = NoThread) =>
                    ENABLED nextId_Lock(c))
    /\ [][\A c \in Consumers :
            (cpc[c] = "fast" /\ cpc'[c] # "fast" /\ leftCount(segments[ProcOf(c)]) # 0) =>
                /\ cpc'[c] = "idle"
                /\ ret'[c] = "ok"
                /\ waits'[c] = 0
                /\ Len(popped'[ProcOf(c)]) = Len(popped[ProcOf(c)]) + 1
         ]_vars

\* While the goroutine's Data.NextId call holds the store row (UPDATE done, no
\* answer yet) a consumer got the mutex and finds IDs in the buffer.
C18_Witness ==
    \E c \in LocalConsumers, w \in WorkerSlots :
        /\ worker[1][w].pc = "select"
        /\ cpc[c] = "fast"
        /\ mutex[1] = ConsumerThread(c)
        /\ leftCount(segments[1]) # 0

\* C19: with the mutex free and a segment buffered the queue is empty and every
\* consumer in select has had its channel closed.
C19_NoLostWakeup ==
    \A p \in Procs :
        (mutex[p] = NoThread /\ Len(segments[p]) >= 1) =>
            /\ waiting[p] = <<>>
            /\ \A c \in Consumers : (ProcOf(c) = p /\ cpc[c] = "wait") => signaled[c]

\* An append found two consumers blocked: both channels are closed, the queue
\* is empty, the segment is buffered and neither has left its select yet.
C19_Witness ==
    /\ \A c \in LocalConsumers : cpc[c] = "wait" /\ signaled[c] /\ wokenBy[c] = "append"
    /\ mutex[1] = NoThread
    /\ Len(segments[1]) >= 1
    /\ waiting[1] = <<>>

====
